---- MODULE Spec2Model ----
(***************************************************************************)
(* Refresh-aware fetch/cache pipeline of boundary-automation:              *)
(*   src/src/analysis.py  GeoBoundariesAPI, build_country_iso_from_csv,    *)
(*                        run_full_analysis                                *)
(*   src/src/utils.py     requests_with_retry                              *)
(*   src/src/config.py    ADM_LEVELS                                       *)
(*                                                                         *)
(* Three specifications share the variables:                               *)
(*   Spec         run_full_analysis: cache gate, collection, persistence   *)
(*   SpecCollect  get_all_boundaries_metadata alone, two countries, every  *)
(*                kind of upstream response                                *)
(*   SpecRetry    requests_with_retry against a scripted upstream          *)
(***************************************************************************)
EXTENDS Integers, Sequences, FiniteSets, TLC

\* ------------------------------------------------------------------ bounds
\* largest refresh_days threshold passed to run_full_analysis
MaxDays == 1
\* clock resolution: ticks of the wall clock per day
TicksPerDay == 2
\* largest retries argument passed to requests_with_retry by the model
MaxRetries == 3

\* oldest cached file looked at: one day beyond the largest threshold
MaxAgeTicks == TicksPerDay * (MaxDays + 2) - 1

\* -------------------------------------------------------- program constants
\* config.py: ADM_LEVELS
ADM_LEVELS == <<"ADM0", "ADM1", "ADM2", "ADM3", "ADM4">>

\* utils.py: default of the retries parameter
DefaultRetries == 3

\* refresh_days=None (the default of run_full_analysis)
None == 0 - 1

\* ------------------------------------------------------------ the upstream
\* An HTTP exchange as requests.get sees it: status 0 stands for a
\* connection-level failure (no response), body is what response.json() finds.
Resp(s, b) == [status |-> s, body |-> b, license |-> "Public Domain"]

Ok200 == Resp(200, "object")
NotFound404 == Resp(404, "none")
Forbidden403 == Resp(403, "none")
Unavailable503 == Resp(503, "none")
NetworkFailure == Resp(0, "none")

\* failures the API or the network can produce for any pair
FailureResponses == {Forbidden403, Unavailable503, NetworkFailure}

\* every kind of answer: other success statuses, null / non-object /
\* undecodable bodies included
AllResponses ==
    {Ok200, NotFound404} \cup FailureResponses \cup
    {Resp(200, "null"), Resp(200, "array"), Resp(200, "invalid"), Resp(203, "object")}

\* ---------------------------------------------------------- reference table
\* rows of the ISO reference CSV: <<"Country or Area", "ISO-alpha3 code">>
Testland == <<"Testland", "TST">>
Utopia == <<"Utopia", "UTO">>

\* reference tables read by the runs of Spec (a duplicated row included)
GateTables == {<< >>, <<Testland>>, <<Testland, Testland>>}

\* reference tables read by the runs of SpecCollect
CollectTables ==
    {<< >>, <<Testland>>, <<Testland, Utopia>>, <<Utopia, Testland>>,
     <<Testland, Utopia, Testland>>}

\* the table file is missing
NoTable == <<<<"", "">>>>

RECURSIVE DictFromRows(_, _)
\* dict(zip(names, codes)): a key keeps the position of its first insertion
\* and takes the value of its last one
DictFromRows(rows, acc) ==
    IF rows = << >> THEN acc
    ELSE LET r == Head(rows)
             seen == \E i \in 1..Len(acc) : acc[i][1] = r[1]
             upd == [i \in 1..Len(acc) |-> IF acc[i][1] = r[1] THEN r ELSE acc[i]]
         IN  DictFromRows(Tail(rows), IF seen THEN upd ELSE Append(acc, r))

\* the two columns zipped the other way round: dict(zip(codes, names))
build_country_iso_from_csv_Swapped(table) ==
    DictFromRows([i \in 1..Len(table) |-> <<table[i][2], table[i][1]>>], << >>)

\* build_country_iso_from_csv
build_country_iso_from_csv(table) == DictFromRows(table, << >>)

\* --------------------------------------------------------------- CSV files
NoFile == [exists |-> FALSE, header |-> FALSE, rows |-> << >>]

\* data.get('boundaryLicense') of a body without that key: None
Unset == "<unset>"

\* the missing value of a frame (float nan): equal to no string
NaN == "<NaN>"

\* to_csv writes None as an empty cell
CsvCell(v) == IF v = Unset THEN "" ELSE v

\* cell texts read_csv takes for a missing value (of pandas' default list,
\* the one a License of the model can produce)
NaStrings == {""}

\* read_csv turns the cells it takes for missing into NaN
FrameCell(text) == IF text \in NaStrings THEN NaN ELSE text

\* pd.DataFrame(records).to_csv(path, index=False): a frame built from an
\* empty list has no columns, so the file gets no header line
MetadataToCsv(recs) ==
    [exists |-> TRUE, header |-> recs # << >>,
     rows |-> [k \in 1..Len(recs) |-> [recs[k] EXCEPT !.License = CsvCell(@)]]]

\* the frame pd.read_csv(completed_path) builds from a readable file
ReadMetadataCsv(file) ==
    [k \in 1..Len(file.rows) |-> [file.rows[k] EXCEPT !.License = FrameCell(@)]]

\* pd.DataFrame(missing, columns=[...]).to_csv(path, index=False)
MissingToCsv(miss) == [exists |-> TRUE, header |-> TRUE, rows |-> miss]

\* pd.read_csv(path): "ok", or the exception it raises
ReadCsvStatus(file) ==
    IF ~file.exists THEN "FileNotFoundError"
    ELSE IF ~file.header THEN "EmptyDataError"
    ELSE "ok"

VARIABLES
    upstream,         \* layers the API serves, or "any" (SpecCollect)
    metaFile,         \* completed_path
    missingFile,      \* missing_path
    age,              \* ticks since completed_path was last modified
    pc,               \* position of the current run
    refresh_days,     \* argument of the current run
    branch,           \* what the cache gate chose: "none", "cached", "refresh"
    country_iso_map,  \* the CountryIndex of the current run
    pos,              \* number of (country, level) pairs looked up so far
    records,          \* records list / returned frame
    missing,          \* missing list / returned frame
    error,            \* exception the run raised, "" when none
    before,           \* both files and the age as the run found them
    netlog,           \* requests and delays of the current run, in order
    lastResp,         \* answer to the latest boundary request
    rw_pc,            \* requests_with_retry: position
    rw_retries,       \* requests_with_retry: retries argument
    rw_script,        \* answers the upstream gives to successive requests
    rw_attempt,       \* loop variable attempt
    rw_requests,      \* requests.get calls made
    rw_sleeps,        \* time.sleep calls, as exponents of 2 (x backoff_factor)
    rw_result,        \* "", "response", or the exception raised
    lic_pc,           \* check_license: position
    lic_allow,        \* check_license: acceptable_licenses argument
    lic_source,       \* records the metadata file was written from
    lic_df,           \* frame read from completed_path
    acceptable,       \* acceptable_df
    unacceptable,     \* unacceptable_df
    gh_pc,            \* GitHub listing: position
    gh_fn,            \* GitHub listing: the function called
    gh_upstream,      \* answers GitHub gives for page 1, 2, ...
    gh_page,          \* loop variable page
    gh_all,           \* items accumulated so far
    gh_reqs,          \* requests issued by the call, in order
    gh_result,        \* items of the returned listing
    gh_error,         \* exception the call raised, "" when none
    run_analysis_button,  \* DataCollectionTab: the button is enabled
    start_button,         \* LicenseDetectionTab: the button is enabled
    analysis_workers,     \* AnalysisWorker threads started and not ended
    analysis_finished,    \* a finished signal of an AnalysisWorker is queued
    license_worker,       \* LicenseWorker: "none", "started", "ran"
    license_finished,     \* a finished signal of the LicenseWorker is queued
    read_during,          \* what check_license read, and the pc of the analysis run then
    rs_pc,                \* ISO Resolver: position
    rs_fn,                \* the function called
    rs_index,             \* CountryIndex
    rs_input,             \* the argument
    rs_out,               \* the outcome of the call
    rs_again              \* the outcome of the function applied to its own result

vars == <<upstream, metaFile, missingFile, age, pc, refresh_days, branch,
          country_iso_map, pos, records, missing, error, before, netlog,
          lastResp, rw_pc, rw_retries, rw_script, rw_attempt, rw_requests,
          rw_sleeps, rw_result, lic_pc, lic_allow, lic_source, lic_df,
          acceptable, unacceptable, gh_pc, gh_fn, gh_upstream, gh_page, gh_all,
          gh_reqs, gh_result, gh_error, run_analysis_button, start_button,
          analysis_workers, analysis_finished, license_worker, license_finished,
          read_during, rs_pc, rs_fn, rs_index, rs_input, rs_out, rs_again>>

fileVars == <<metaFile, missingFile, age>>
runVars == <<pc, refresh_days, branch, country_iso_map, pos, records, missing,
             error, before, netlog, lastResp>>
retryVars == <<rw_pc, rw_retries, rw_script, rw_attempt, rw_requests,
               rw_sleeps, rw_result>>
licVars == <<lic_pc, lic_allow, lic_source, lic_df, acceptable, unacceptable>>
ghVars == <<gh_pc, gh_fn, gh_upstream, gh_page, gh_all, gh_reqs, gh_result, gh_error>>
rsVars == <<rs_pc, rs_fn, rs_index, rs_input, rs_out, rs_again>>
guiVars == <<run_analysis_button, start_button, analysis_workers, analysis_finished,
             license_worker, license_finished, read_during>>

\* ------------------------------------------------------ Boundary Fetcher
\* no request answered yet in this run
NoResp == Resp(0 - 2, "none")

\* response.raise_for_status(): TRUE when it raises HTTPError (4xx or 5xx)
raise_for_status(resp) == 400 <= resp.status /\ resp.status < 600

\* the fetcher with every HTTP error taken for "not found"
fetch_single_boundary_SwallowHttp(resp) ==
    IF resp.status = 0
    THEN [kind |-> "raise", error |-> "RuntimeError"]
    ELSE IF raise_for_status(resp)
    THEN [kind |-> "None", error |-> ""]
    ELSE IF resp.body = "invalid"
    THEN [kind |-> "raise", error |-> "RuntimeError"]
    ELSE IF resp.body = "null"
    THEN [kind |-> "None", error |-> ""]
    ELSE [kind |-> "data", error |-> ""]

\* GeoBoundariesAPI._fetch_single_boundary: what the call hands to its caller
\* for one answer of the API: data, None, or a raised exception
fetch_single_boundary(resp) ==
    IF resp.status = 0
    THEN [kind |-> "raise", error |-> "RuntimeError"]
    ELSE IF raise_for_status(resp)
    THEN IF resp.status = 404
         THEN [kind |-> "None", error |-> ""]
         ELSE [kind |-> "raise", error |-> "HTTPError"]
    ELSE IF resp.body = "invalid"
    THEN [kind |-> "raise", error |-> "RuntimeError"]
    ELSE IF resp.body = "null"
    THEN [kind |-> "None", error |-> ""]
    ELSE [kind |-> "data", error |-> ""]

\* answers the API can give to GET {BASE_URL}/{iso}/{adm}/
Serve(iso, adm) ==
    IF upstream.mode = "any" THEN AllResponses
    ELSE (IF <<iso, adm>> \in upstream.layers THEN {Ok200} ELSE {NotFound404})
         \cup FailureResponses

\* ------------------------------------------- Full Collection Orchestrator
NumPairs == Len(country_iso_map) * Len(ADM_LEVELS)

\* the two loops nested the other way round: levels outside, countries inside
PairAt_LevelMajor(p) ==
    LET c == country_iso_map[(p % Len(country_iso_map)) + 1]
    IN  [Country |-> c[1], ISO |-> c[2],
         ADM_Level |-> ADM_LEVELS[(p \div Len(country_iso_map)) + 1]]

\* the (country, iso, adm_level) the nested loops reach after p lookups
PairAt(p) ==
    LET c == country_iso_map[(p \div Len(ADM_LEVELS)) + 1]
    IN  [Country |-> c[1], ISO |-> c[2], ADM_Level |-> ADM_LEVELS[(p % Len(ADM_LEVELS)) + 1]]

\* the dict appended to records
BoundaryRecord(pair, resp) ==
    [Country |-> pair.Country, ISO |-> pair.ISO, BoundaryType |-> pair.ADM_Level,
     License |-> resp.license]

\* missing.insert(0, ...) in place of missing.append(...)
MissingAfter_Prepend(miss, pair, out) ==
    IF out.kind = "None" THEN <<pair>> \o miss ELSE miss

\* lines 47-49: a None answer goes to missing, and continue skips the rest
MissingAfter(miss, pair, out) ==
    IF out.kind = "None" THEN Append(miss, pair) ELSE miss

\* the loop body without its continue: a None answer is recorded twice
RecordsAfter_NoContinue(recs, pair, resp, out) ==
    Append(recs, BoundaryRecord(pair, resp))

\* lines 50-60: reached only when the answer was not None
RecordsAfter(recs, pair, resp, out) ==
    IF out.kind = "None" THEN recs ELSE Append(recs, BoundaryRecord(pair, resp))

GetEvent(pair) == [op |-> "get", ISO |-> pair.ISO, ADM_Level |-> pair.ADM_Level]
SleepEvent(pair) == [op |-> "sleep", ISO |-> pair.ISO, ADM_Level |-> pair.ADM_Level]

\* one iteration of the inner loop of get_all_boundaries_metadata
LookupStep ==
    /\ pc = "collect"
    /\ pos < NumPairs
    /\ LET pair == PairAt(pos) IN
       \E resp \in Serve(pair.ISO, pair.ADM_Level) :
         LET out == fetch_single_boundary(resp) IN
         /\ lastResp' = resp
         /\ IF out.kind = "raise"
            THEN /\ pc' = "raised"
                 /\ error' = out.error
                 /\ netlog' = Append(netlog, GetEvent(pair))
                 /\ UNCHANGED <<pos, records, missing>>
            ELSE IF out.kind = "None"
            THEN /\ missing' = MissingAfter(missing, pair, out)
                 /\ records' = RecordsAfter(records, pair, resp, out)
                 /\ pos' = pos + 1
                 /\ netlog' = Append(netlog, GetEvent(pair))
                 /\ UNCHANGED <<pc, error>>
            ELSE IF resp.body # "object"
            THEN /\ pc' = "raised"
                 /\ error' = "AttributeError"
                 /\ netlog' = Append(netlog, GetEvent(pair))
                 /\ UNCHANGED <<pos, records, missing>>
            ELSE /\ records' = RecordsAfter(records, pair, resp, out)
                 /\ missing' = MissingAfter(missing, pair, out)
                 /\ pos' = pos + 1
                 /\ netlog' = Append(Append(netlog, GetEvent(pair)), SleepEvent(pair))
                 /\ UNCHANGED <<pc, error>>
    /\ UNCHANGED <<upstream, fileVars, refresh_days, branch, country_iso_map, before>>
    /\ UNCHANGED retryVars
    /\ UNCHANGED licVars
    /\ UNCHANGED ghVars
    /\ UNCHANGED guiVars
    /\ UNCHANGED rsVars

\* get_all_boundaries_metadata called on its own: read the table, start the loops
CollectStart ==
    /\ pc = "idle"
    /\ \E table \in CollectTables \cup {NoTable} :
         IF table = NoTable
         THEN /\ pc' = "raised"
              /\ error' = "RuntimeError"
              /\ country_iso_map' = << >>
         ELSE /\ pc' = "collect"
              /\ error' = ""
              /\ country_iso_map' = build_country_iso_from_csv(table)
    /\ pos' = 0
    /\ records' = << >>
    /\ missing' = << >>
    /\ netlog' = << >>
    /\ lastResp' = NoResp
    /\ before' = [meta |-> metaFile, missing |-> missingFile, age |-> age]
    /\ UNCHANGED <<upstream, fileVars, refresh_days, branch>>
    /\ UNCHANGED retryVars
    /\ UNCHANGED licVars
    /\ UNCHANGED ghVars
    /\ UNCHANGED guiVars
    /\ UNCHANGED rsVars

\* get_all_boundaries_metadata returns (df, missing_df)
CollectReturn ==
    /\ pc = "collect"
    /\ pos = NumPairs
    /\ pc' = "returned"
    /\ UNCHANGED <<upstream, fileVars, refresh_days, branch, country_iso_map, pos,
                   records, missing, error, before, netlog, lastResp>>
    /\ UNCHANGED retryVars
    /\ UNCHANGED licVars
    /\ UNCHANGED ghVars
    /\ UNCHANGED guiVars
    /\ UNCHANGED rsVars

\* the caller has taken the result (or the exception); the next call can start
Exit ==
    /\ pc \in {"returned", "raised"}
    /\ pc' = "idle"
    /\ refresh_days' = None
    /\ branch' = "none"
    /\ country_iso_map' = << >>
    /\ pos' = 0
    /\ records' = << >>
    /\ missing' = << >>
    /\ error' = ""
    /\ before' = [meta |-> metaFile, missing |-> missingFile, age |-> age]
    /\ netlog' = << >>
    /\ lastResp' = NoResp
    /\ UNCHANGED <<upstream, fileVars>>
    /\ UNCHANGED retryVars
    /\ UNCHANGED licVars
    /\ UNCHANGED ghVars
    /\ UNCHANGED guiVars
    /\ UNCHANGED rsVars

\* ---------------------------------------------------- Cache Freshness Gate
\* (datetime.now() - file_date).days: whole days, rounded down
age_days(ticks) == ticks \div TicksPerDay

\* the gate without its refresh_days is None test
RefreshDisabled_Dropped(rd) == FALSE

\* line 101: refresh_days is None
RefreshDisabled(rd) == rd = None

\* the age test with a strict comparison
CacheFresh_Strict(days, rd) == days < rd

\* line 105: age_days <= refresh_days
CacheFresh(days, rd) == days <= rd

\* the gate asking for both cache files before it serves the cache
UseCachedFile_BothFiles(exists, days, rd) ==
    exists /\ missingFile.exists /\ (RefreshDisabled(rd) \/ CacheFresh(days, rd))

\* the gate testing refresh_days before the existence of the file
UseCachedFile_NoneFirst(exists, days, rd) ==
    RefreshDisabled(rd) \/ (exists /\ CacheFresh(days, rd))

\* lines 97-112: TRUE when run_full_analysis returns the cached files
UseCachedFile(exists, days, rd) ==
    exists /\ (RefreshDisabled(rd) \/ CacheFresh(days, rd))

\* to_csv(..., mode="a"): the new rows are added to the old ones
WriteMetadata_Append(old, recs) ==
    [exists |-> TRUE, header |-> old.header \/ recs # << >>, rows |-> old.rows \o recs]

\* df.to_csv(completed_path, index=False): replaces what the path held
WriteMetadata(old, recs) == MetadataToCsv(recs)

\* missing_df.to_csv(missing_path, index=False): replaces what the path held
WriteMissing(old, miss) == MissingToCsv(miss)

\* refresh_days values the callers pass
Policies == {None} \cup (0..MaxDays)

\* run_full_analysis up to the first boundary request: the gate, then either
\* the two pd.read_csv calls or build_country_iso_from_csv
run_full_analysis(rd, table) ==
    /\ pc = "idle"
    /\ refresh_days' = rd
    /\ IF UseCachedFile(metaFile.exists, age_days(age), rd)
       THEN /\ branch' = "cached"
            /\ country_iso_map' = << >>
            /\ IF ReadCsvStatus(metaFile) # "ok"
               THEN /\ pc' = "raised"
                    /\ error' = ReadCsvStatus(metaFile)
                    /\ records' = << >>
                    /\ missing' = << >>
               ELSE IF ReadCsvStatus(missingFile) # "ok"
               THEN /\ pc' = "raised"
                    /\ error' = ReadCsvStatus(missingFile)
                    /\ records' = << >>
                    /\ missing' = << >>
               ELSE /\ pc' = "returned"
                    /\ error' = ""
                    /\ records' = ReadMetadataCsv(metaFile)
                    /\ missing' = missingFile.rows
       ELSE /\ branch' = "refresh"
            /\ records' = << >>
            /\ missing' = << >>
            /\ IF table = NoTable
               THEN /\ pc' = "raised"
                    /\ error' = "RuntimeError"
                    /\ country_iso_map' = << >>
               ELSE /\ pc' = "collect"
                    /\ error' = ""
                    /\ country_iso_map' = build_country_iso_from_csv(table)
    /\ pos' = 0
    /\ netlog' = << >>
    /\ lastResp' = NoResp
    /\ before' = [meta |-> metaFile, missing |-> missingFile, age |-> age]
    /\ UNCHANGED <<upstream, fileVars>>
    /\ UNCHANGED retryVars
    /\ UNCHANGED licVars
    /\ UNCHANGED ghVars
    /\ UNCHANGED rsVars

\* a call with any refresh_days and any reference table
RunFullAnalysis ==
    /\ \E rd \in Policies, table \in GateTables \cup {NoTable} :
         run_full_analysis(rd, table)
    /\ UNCHANGED guiVars

\* line 118, after get_all_boundaries_metadata has returned
SaveMetadata ==
    /\ pc = "collect"
    /\ pos = NumPairs
    /\ metaFile' = WriteMetadata(metaFile, records)
    /\ age' = 0
    /\ pc' = "save_missing"
    /\ UNCHANGED <<upstream, missingFile, refresh_days, branch, country_iso_map, pos,
                   records, missing, error, before, netlog, lastResp>>
    /\ UNCHANGED retryVars
    /\ UNCHANGED licVars
    /\ UNCHANGED ghVars
    /\ UNCHANGED guiVars
    /\ UNCHANGED rsVars

\* lines 119-121
SaveMissing ==
    /\ pc = "save_missing"
    /\ missingFile' = WriteMissing(missingFile, missing)
    /\ pc' = "returned"
    /\ UNCHANGED <<upstream, metaFile, age, refresh_days, branch, country_iso_map, pos,
                   records, missing, error, before, netlog, lastResp>>
    /\ UNCHANGED retryVars
    /\ UNCHANGED licVars
    /\ UNCHANGED ghVars
    /\ UNCHANGED guiVars
    /\ UNCHANGED rsVars

\* the process is terminated in the middle of a run (no operation is
\* cancellable; a run is abandoned by killing the process)
Abandon ==
    /\ pc \in {"collect", "save_missing"}
    /\ pc' = "idle"
    /\ refresh_days' = None
    /\ branch' = "none"
    /\ country_iso_map' = << >>
    /\ pos' = 0
    /\ records' = << >>
    /\ missing' = << >>
    /\ error' = ""
    /\ before' = [meta |-> metaFile, missing |-> missingFile, age |-> age]
    /\ netlog' = << >>
    /\ lastResp' = NoResp
    /\ UNCHANGED <<upstream, fileVars>>
    /\ UNCHANGED retryVars
    /\ UNCHANGED licVars
    /\ UNCHANGED ghVars
    /\ UNCHANGED guiVars
    /\ UNCHANGED rsVars

\* time passes between two runs
Tick ==
    /\ pc = "idle"
    /\ metaFile.exists
    /\ age < MaxAgeTicks
    /\ age' = age + 1
    /\ before' = [before EXCEPT !.age = age + 1]
    /\ UNCHANGED <<upstream, metaFile, missingFile, pc, refresh_days, branch,
                   country_iso_map, pos, records, missing, error, netlog, lastResp>>
    /\ UNCHANGED retryVars
    /\ UNCHANGED licVars
    /\ UNCHANGED ghVars
    /\ UNCHANGED guiVars
    /\ UNCHANGED rsVars

\* layers of Testland the API may hold
TestlandLayers == {<<"TST", ADM_LEVELS[i]>> : i \in 1..Len(ADM_LEVELS)}

\* the API publishes one more layer between two runs
UpstreamPublish ==
    /\ pc = "idle"
    /\ upstream.mode = "table"
    /\ \E layer \in TestlandLayers \ upstream.layers :
         upstream' = [upstream EXCEPT !.layers = @ \cup {layer}]
    /\ UNCHANGED fileVars
    /\ UNCHANGED runVars
    /\ UNCHANGED retryVars
    /\ UNCHANGED licVars
    /\ UNCHANGED ghVars
    /\ UNCHANGED guiVars
    /\ UNCHANGED rsVars

\* ------------------------------------------------------------ initial states
InitFiles ==
    /\ metaFile = NoFile
    /\ missingFile = NoFile
    /\ age = 0

InitRun ==
    /\ pc = "idle"
    /\ refresh_days = None
    /\ branch = "none"
    /\ country_iso_map = << >>
    /\ pos = 0
    /\ records = << >>
    /\ missing = << >>
    /\ error = ""
    /\ before = [meta |-> NoFile, missing |-> NoFile, age |-> 0]
    /\ netlog = << >>
    /\ lastResp = NoResp

InitLicense ==
    /\ lic_pc = "idle"
    /\ lic_allow = {}
    /\ lic_source = << >>
    /\ lic_df = << >>
    /\ acceptable = << >>
    /\ unacceptable = << >>

\* no call of the resolver yet
NoOutcome == [kind |-> "none", value |-> << >>, suggestions |-> {}]

InitResolver ==
    /\ rs_pc = "idle"
    /\ rs_fn = ""
    /\ rs_index = << >>
    /\ rs_input = << >>
    /\ rs_out = NoOutcome
    /\ rs_again = NoOutcome

\* read_during before the license worker has read anything
NoRead == [pc |-> "", file |-> NoFile]

\* the window as MainWindow.init_ui builds it: both buttons enabled, no worker
InitGui ==
    /\ run_analysis_button = TRUE
    /\ start_button = TRUE
    /\ analysis_workers = 0
    /\ analysis_finished = FALSE
    /\ license_worker = "none"
    /\ license_finished = FALSE
    /\ read_during = NoRead

\* gh_upstream outside a call
NoUpstream == [pages |-> << >>, endless |-> FALSE]

InitGitHub ==
    /\ gh_pc = "idle"
    /\ gh_fn = ""
    /\ gh_upstream = NoUpstream
    /\ gh_page = 1
    /\ gh_all = << >>
    /\ gh_reqs = << >>
    /\ gh_result = << >>
    /\ gh_error = ""

InitRetry ==
    /\ rw_pc = "idle"
    /\ rw_retries = 0
    /\ rw_script = << >>
    /\ rw_attempt = 0
    /\ rw_requests = 0
    /\ rw_sleeps = << >>
    /\ rw_result = ""

\* Spec: no cache yet; the API holds some set of Testland's layers
Init ==
    /\ upstream \in [mode : {"table"}, layers : SUBSET TestlandLayers]
    /\ InitFiles
    /\ InitRun
    /\ InitRetry
    /\ InitLicense
    /\ InitGitHub
    /\ InitGui
    /\ InitResolver

Next ==
    \/ RunFullAnalysis
    \/ LookupStep
    \/ SaveMetadata
    \/ SaveMissing
    \/ Abandon
    \/ Exit
    \/ Tick
    \/ UpstreamPublish

Spec == Init /\ [][Next]_vars

\* SpecCollect: the API may answer anything
InitCollect ==
    /\ upstream = [mode |-> "any", layers |-> {}]
    /\ InitFiles
    /\ InitRun
    /\ InitRetry
    /\ InitLicense
    /\ InitGitHub
    /\ InitGui
    /\ InitResolver

NextCollect ==
    \/ CollectStart
    \/ LookupStep
    \/ CollectReturn
    \/ Exit

SpecCollect == InitCollect /\ [][NextCollect]_vars

\* ------------------------------------------------------ requests_with_retry
\* answers a scripted upstream gives to one request
RetryResponses == {Ok200, NotFound404, Forbidden403, Unavailable503, NetworkFailure}

\* one answer per request the call could make, and one more
ScriptLen == MaxRetries + 1

Scripts == [1..ScriptLen -> RetryResponses]

\* the status test widened to every HTTP error
IsServerError_AnyError(resp) == 400 <= resp.status /\ resp.status < 600

\* line 14: 500 <= e.response.status_code < 600
IsServerError(resp) == 500 <= resp.status /\ resp.status < 600

\* line 8: range(retries) yields another attempt
LoopContinues(attempt, retries) == attempt < retries

\* the call of requests_with_retry(url, retries=n)
RetryCall ==
    /\ rw_pc = "idle"
    /\ \E n \in 0..MaxRetries, script \in Scripts :
         /\ rw_retries' = n
         /\ rw_script' = script
         /\ IF LoopContinues(0, n)
            THEN /\ rw_pc' = "loop"
                 /\ rw_result' = ""
            ELSE /\ rw_pc' = "raised"
                 /\ rw_result' = "AllRetriesFailed"
    /\ rw_attempt' = 0
    /\ rw_requests' = 0
    /\ rw_sleeps' = << >>
    /\ UNCHANGED <<upstream, fileVars>>
    /\ UNCHANGED runVars
    /\ UNCHANGED licVars
    /\ UNCHANGED ghVars
    /\ UNCHANGED guiVars
    /\ UNCHANGED rsVars

\* one iteration of the for loop; falling out of the loop raises
\* RequestException("All {retries} retries failed for {url}")
RetryAttempt ==
    /\ rw_pc = "loop"
    /\ LET resp == rw_script[rw_requests + 1]
           more == LoopContinues(rw_attempt + 1, rw_retries)
       IN
       /\ rw_requests' = rw_requests + 1
       /\ IF resp.status # 0 /\ ~raise_for_status(resp)
          THEN /\ rw_pc' = "returned"
               /\ rw_result' = "response"
               /\ UNCHANGED <<rw_attempt, rw_sleeps>>
          ELSE IF resp.status # 0
          THEN IF IsServerError(resp)
               THEN /\ rw_sleeps' = Append(rw_sleeps, rw_attempt)
                    /\ rw_attempt' = rw_attempt + 1
                    /\ rw_pc' = IF more THEN "loop" ELSE "raised"
                    /\ rw_result' = IF more THEN "" ELSE "AllRetriesFailed"
               ELSE /\ rw_pc' = "raised"
                    /\ rw_result' = "HTTPError"
                    /\ UNCHANGED <<rw_attempt, rw_sleeps>>
          ELSE IF rw_attempt < rw_retries - 1
               THEN /\ rw_sleeps' = Append(rw_sleeps, rw_attempt)
                    /\ rw_attempt' = rw_attempt + 1
                    /\ rw_pc' = "loop"
                    /\ rw_result' = ""
               ELSE /\ rw_pc' = "raised"
                    /\ rw_result' = "ConnectionError"
                    /\ UNCHANGED <<rw_attempt, rw_sleeps>>
    /\ UNCHANGED <<rw_retries, rw_script>>
    /\ UNCHANGED <<upstream, fileVars>>
    /\ UNCHANGED runVars
    /\ UNCHANGED licVars
    /\ UNCHANGED ghVars
    /\ UNCHANGED guiVars
    /\ UNCHANGED rsVars

\* the caller has taken the response (or the exception)
RetryExit ==
    /\ rw_pc \in {"returned", "raised"}
    /\ rw_pc' = "idle"
    /\ rw_retries' = 0
    /\ rw_script' = << >>
    /\ rw_attempt' = 0
    /\ rw_requests' = 0
    /\ rw_sleeps' = << >>
    /\ rw_result' = ""
    /\ UNCHANGED <<upstream, fileVars>>
    /\ UNCHANGED runVars
    /\ UNCHANGED licVars
    /\ UNCHANGED ghVars
    /\ UNCHANGED guiVars
    /\ UNCHANGED rsVars

InitRetrySpec ==
    /\ upstream = [mode |-> "any", layers |-> {}]
    /\ InitFiles
    /\ InitRun
    /\ InitRetry
    /\ InitLicense
    /\ InitGitHub
    /\ InitGui
    /\ InitResolver

NextRetry ==
    \/ RetryCall
    \/ RetryAttempt
    \/ RetryExit

SpecRetry == InitRetrySpec /\ [][NextRetry]_vars

\* ------------------------------------------------------ License Classifier
\* rows the model lets a metadata file hold
MaxLicenseRows == 3

\* boundaryLicense values the API can send
LicenseValues == {"Public Domain", "Proprietary", "", Unset}

\* acceptable_licenses arguments: lists of license names
AllowLists == SUBSET {"Public Domain", "Proprietary", ""}

\* the record a run makes of Testland's k-th level with a given license
LicensedRecord(k, lic) ==
    BoundaryRecord([Country |-> "Testland", ISO |-> "TST", ADM_Level |-> ADM_LEVELS[k]],
                   [Ok200 EXCEPT !.license = lic])

\* records lists a completed run can have written
LicenseRecordLists ==
    UNION {{[k \in 1..n |-> LicensedRecord(k, f[k])] : f \in [1..n -> LicenseValues]} :
           n \in 0..MaxLicenseRows}

\* Series.isin with a NaN cell treated as the empty string (fillna(""))
IsIn_FillNa(cell, allow) == (IF cell = NaN THEN "" ELSE cell) \in allow

\* Series.isin(acceptable_licenses) for one cell: NaN equals no string
IsIn(cell, allow) == cell # NaN /\ cell \in allow

\* line 135: df[df['License'].isin(acceptable_licenses)]
AcceptableRows(df, allow) == SelectSeq(df, LAMBDA r : IsIn(r.License, allow))

\* the second filter applied after a dropna on License
UnacceptableRows_DropNa(df, allow) ==
    SelectSeq(df, LAMBDA r : r.License # NaN /\ ~IsIn(r.License, allow))

\* line 138: df[~df['License'].isin(acceptable_licenses)]
UnacceptableRows(df, allow) == SelectSeq(df, LAMBDA r : ~IsIn(r.License, allow))

\* check_license(completed_path, acceptable_licenses)
check_license(allow) ==
    /\ lic_pc = "idle"
    /\ lic_allow' = allow
    /\ IF ~metaFile.exists
       THEN /\ lic_pc' = "returned"
            /\ lic_df' = << >>
            /\ acceptable' = << >>
            /\ unacceptable' = << >>
       ELSE IF ReadCsvStatus(metaFile) # "ok"
       THEN /\ lic_pc' = "raised"
            /\ lic_df' = << >>
            /\ acceptable' = << >>
            /\ unacceptable' = << >>
       ELSE /\ lic_pc' = "returned"
            /\ lic_df' = ReadMetadataCsv(metaFile)
            /\ acceptable' = AcceptableRows(ReadMetadataCsv(metaFile), allow)
            /\ unacceptable' = UnacceptableRows(ReadMetadataCsv(metaFile), allow)
    /\ UNCHANGED lic_source
    /\ UNCHANGED <<upstream, fileVars>>
    /\ UNCHANGED runVars
    /\ UNCHANGED retryVars
    /\ UNCHANGED ghVars
    /\ UNCHANGED rsVars

\* a call with any list of acceptable licenses
CheckLicense ==
    /\ \E allow \in AllowLists : check_license(allow)
    /\ UNCHANGED guiVars

\* the caller has taken the two frames (or the exception)
LicenseExit ==
    /\ lic_pc \in {"returned", "raised"}
    /\ lic_pc' = "idle"
    /\ lic_allow' = {}
    /\ lic_df' = << >>
    /\ acceptable' = << >>
    /\ unacceptable' = << >>
    /\ UNCHANGED lic_source
    /\ UNCHANGED <<upstream, fileVars>>
    /\ UNCHANGED runVars
    /\ UNCHANGED retryVars
    /\ UNCHANGED ghVars
    /\ UNCHANGED guiVars
    /\ UNCHANGED rsVars

\* SpecLicense: the metadata file is absent or was written by a completed run
InitLicenseSpec ==
    /\ upstream = [mode |-> "any", layers |-> {}]
    /\ \E recs \in LicenseRecordLists :
         /\ lic_source = recs
         /\ metaFile \in {MetadataToCsv(recs)} \cup (IF recs = << >> THEN {NoFile} ELSE {})
    /\ missingFile = (IF metaFile.exists THEN MissingToCsv(<< >>) ELSE NoFile)
    /\ age = 0
    /\ InitRun
    /\ InitRetry
    /\ lic_pc = "idle"
    /\ lic_allow = {}
    /\ lic_df = << >>
    /\ acceptable = << >>
    /\ unacceptable = << >>
    /\ InitGitHub
    /\ InitGui
    /\ InitResolver

NextLicense ==
    \/ CheckLicense
    \/ LicenseExit

SpecLicense == InitLicenseSpec /\ [][NextLicense]_vars

\* ------------------------------------------------------- GitHub listings
\* analysis.py: fetch_github_issues, fetch_github_pull_requests;
\* pr.py: fetch_pull_requests, fetch_github_issues.

MaxPages == 3

PerPage == 100

\* An item of a listing page.  pull_request tells whether the JSON object
\* carries the key "pull_request"; page and idx identify the item.
GhItem(p, i, tagged) == [page |-> p, idx |-> i, pull_request |-> tagged]

PageShapes == {<< >>, <<FALSE>>, <<TRUE>>, <<FALSE, TRUE>>}

GhOk(shape) == [status |-> 200, shape |-> shape]

RateLimited == [status |-> 403, shape |-> << >>]

GhNetworkFailure == [status |-> 0, shape |-> << >>]

GhAnswers == {GhOk(sh) : sh \in PageShapes} \cup {RateLimited, GhNetworkFailure}

\* An upstream: the answers to the first MaxPages pages, and whether every
\* page after them is empty (the listing ends) or holds an item (it never does).
GhUpstreams == [pages : [1..MaxPages -> GhAnswers], endless : BOOLEAN]

\* requests one call is followed for; a listing that ends takes at most
\* MaxPages + 1 of them
MaxRequests == MaxPages + 2

\* What GitHub answers to a request for page p.
PageAnswer(up, p) ==
    IF p \in DOMAIN up.pages THEN up.pages[p]
    ELSE IF up.endless THEN GhOk(<<FALSE>>)
    ELSE GhOk(<< >>)

\* response.json() of a 200 answer for page p
PageItems(up, p) ==
    LET sh == PageAnswer(up, p).shape
    IN  [i \in 1..Len(sh) |-> GhItem(p, i, sh[i])]

\* requests.get raises on a network failure, raise_for_status on 4xx/5xx;
\* both are requests.RequestException.
GhRaises(ans) == ans.status = 0 \/ raise_for_status(ans)

GhException(ans) == IF ans.status = 0 THEN "ConnectionError" ELSE "HTTPError"

AnalysisIssues == "analysis.fetch_github_issues"

AnalysisPulls == "analysis.fetch_github_pull_requests"

PrPulls == "pr.fetch_pull_requests"

PrIssues == "pr.fetch_github_issues"

GitHubFns == {AnalysisIssues, AnalysisPulls, PrPulls, PrIssues}

\* the functions that loop over pages
Paginated(fn) == fn \in {AnalysisPulls, PrPulls, PrIssues}

\* the functions whose body is wrapped in try/except RequestException
CatchesRequestException(fn) == fn \in {AnalysisIssues, AnalysisPulls}

Endpoint(fn) == IF fn \in {AnalysisIssues, PrIssues} THEN "issues" ELSE "pulls"

\* The request a function sends: the paginated ones pass page and per_page,
\* analysis.fetch_github_issues passes no parameters at all.
GhRequest(fn, p) ==
    IF Paginated(fn)
    THEN [endpoint |-> Endpoint(fn), page |-> p, per_page |-> PerPage]
    ELSE [endpoint |-> Endpoint(fn), page |-> None, per_page |-> None]

\* The page GitHub serves for a request: page 1 when none is asked for.
ServedPage(req) == IF req.page = None THEN 1 ELSE req.page

\* issues_only = [item for item in items if "pull_request" not in item]
IssuesOnly(items) == SelectSeq(items, LAMBDA it : ~it.pull_request)

\* What a function keeps of a page before extending its list.
Kept(fn, items) == IF fn = PrIssues THEN IssuesOnly(items) ELSE items

\* the value the except clause returns with the pages fetched so far kept
OnRequestException_Partial(all) == all

\* lines 182-184: return pd.DataFrame()
OnRequestException(all) == << >>

\* the loop without its break
IsLastPage_Never(batch) == FALSE

\* if not batch: break
IsLastPage(batch) == batch = << >>

NextPage_Skip(p) == p + 2

\* page += 1
NextPage(p) == p + 1

GitHubCall ==
    /\ gh_pc = "idle"
    /\ \E fn \in GitHubFns, up \in GhUpstreams :
           /\ gh_fn' = fn
           /\ gh_upstream' = up
    /\ gh_pc' = "loop"
    /\ gh_page' = 1
    /\ gh_all' = << >>
    /\ gh_reqs' = << >>
    /\ gh_result' = << >>
    /\ gh_error' = ""
    /\ UNCHANGED <<upstream, fileVars>>
    /\ UNCHANGED runVars
    /\ UNCHANGED retryVars
    /\ UNCHANGED licVars
    /\ UNCHANGED guiVars
    /\ UNCHANGED rsVars

\* One request and what the function does with its answer: one iteration of
\* the while loop, or the whole body of analysis.fetch_github_issues.
GitHubPage ==
    /\ gh_pc = "loop"
    /\ Len(gh_reqs) < MaxRequests
    /\ LET req   == GhRequest(gh_fn, gh_page)
           ans   == PageAnswer(gh_upstream, ServedPage(req))
           items == PageItems(gh_upstream, ServedPage(req))
       IN  /\ gh_reqs' = Append(gh_reqs, req)
           /\ IF GhRaises(ans)
              THEN IF CatchesRequestException(gh_fn)
                   THEN /\ gh_pc' = "returned"
                        /\ gh_result' = OnRequestException(gh_all)
                        /\ UNCHANGED <<gh_page, gh_all, gh_error>>
                   ELSE /\ gh_pc' = "raised"
                        /\ gh_error' = GhException(ans)
                        /\ UNCHANGED <<gh_page, gh_all, gh_result>>
              ELSE IF ~Paginated(gh_fn)
                   THEN /\ gh_pc' = "returned"
                        /\ gh_result' = items
                        /\ UNCHANGED <<gh_page, gh_all, gh_error>>
                   ELSE IF IsLastPage(items)
                        THEN /\ gh_pc' = "returned"
                             /\ gh_result' = gh_all
                             /\ UNCHANGED <<gh_page, gh_all, gh_error>>
                        ELSE /\ gh_all' = gh_all \o Kept(gh_fn, items)
                             /\ gh_page' = NextPage(gh_page)
                             /\ UNCHANGED <<gh_pc, gh_result, gh_error>>
    /\ UNCHANGED <<gh_fn, gh_upstream>>
    /\ UNCHANGED <<upstream, fileVars>>
    /\ UNCHANGED runVars
    /\ UNCHANGED retryVars
    /\ UNCHANGED licVars
    /\ UNCHANGED guiVars
    /\ UNCHANGED rsVars

GitHubExit ==
    /\ gh_pc \in {"returned", "raised"}
    /\ gh_pc' = "idle"
    /\ gh_fn' = ""
    /\ gh_upstream' = NoUpstream
    /\ gh_page' = 1
    /\ gh_all' = << >>
    /\ gh_reqs' = << >>
    /\ gh_result' = << >>
    /\ gh_error' = ""
    /\ UNCHANGED <<upstream, fileVars>>
    /\ UNCHANGED runVars
    /\ UNCHANGED retryVars
    /\ UNCHANGED licVars
    /\ UNCHANGED guiVars
    /\ UNCHANGED rsVars

InitGitHubSpec ==
    /\ InitFiles
    /\ upstream = [mode |-> "table", layers |-> {}]
    /\ InitRun
    /\ InitRetry
    /\ InitLicense
    /\ InitGitHub
    /\ InitGui
    /\ InitResolver

NextGitHub ==
    \/ GitHubCall
    \/ GitHubPage
    \/ GitHubExit

SpecGitHub == InitGitHubSpec /\ [][NextGitHub]_vars

\* Every request carries timeout=10 and the loop body has no other wait, so
\* an iteration that can be taken is taken.
SpecGitHubFair == SpecGitHub /\ WF_vars(GitHubPage)

\* ------------------------------------------------------------ GUI workers
\* interface.py: AnalysisWorker, LicenseWorker, DataCollectionTab,
\* LicenseDetectionTab.  The steps of one AnalysisWorker are followed through
\* the variables of run_full_analysis; a worker started on top of it is counted.

\* AnalysisWorker threads the model lets be alive at once
MaxWorkers == 2

\* line 482: AnalysisWorker(...) is built without refresh_days, which then
\* takes its default
GuiRefreshDays_Threshold == MaxDays

GuiRefreshDays == None

\* the click handler leaving the button as it is
RunButtonAfterClick_StaysEnabled == TRUE

\* line 481: self.run_analysis_button.setEnabled(False)
RunButtonAfterClick == FALSE

\* config.acceptable_licenses, as far as the licenses of the model go
GuiAcceptable == {"Public Domain"}

\* the metadata file while to_csv has written the first k records
WrittenSoFar(recs, k) == MetadataToCsv(SubSeq(recs, 1, k))

\* the variables of a run once its thread has ended
LeaveRun ==
    /\ pc' = "idle"
    /\ refresh_days' = None
    /\ branch' = "none"
    /\ country_iso_map' = << >>
    /\ pos' = 0
    /\ records' = << >>
    /\ missing' = << >>
    /\ error' = ""
    /\ before' = [meta |-> metaFile, missing |-> missingFile, age |-> age]
    /\ netlog' = << >>
    /\ lastResp' = NoResp

\* DataCollectionTab.run_analysis, the slot of the button's clicked signal;
\* a disabled button emits no clicked
RunAnalysisClicked ==
    /\ run_analysis_button
    /\ analysis_workers < MaxWorkers
    /\ run_analysis_button' = RunButtonAfterClick
    /\ analysis_workers' = analysis_workers + 1
    /\ UNCHANGED <<start_button, analysis_finished, license_worker, license_finished,
                   read_during>>
    /\ UNCHANGED <<upstream, fileVars>>
    /\ UNCHANGED runVars
    /\ UNCHANGED retryVars
    /\ UNCHANGED licVars
    /\ UNCHANGED ghVars
    /\ UNCHANGED rsVars

\* AnalysisWorker.run, line 51: the call of run_full_analysis
WorkerRunFullAnalysis ==
    /\ analysis_workers > 0
    /\ \E table \in GateTables \cup {NoTable} :
         run_full_analysis(GuiRefreshDays, table)
    /\ UNCHANGED guiVars

\* line 118, df.to_csv(completed_path): the path is opened for writing
OpenMetadata ==
    /\ pc = "collect"
    /\ pos = NumPairs
    /\ metaFile' = WrittenSoFar(records, 0)
    /\ age' = 0
    /\ pc' = "write_metadata"
    /\ UNCHANGED <<upstream, missingFile, refresh_days, branch, country_iso_map, pos,
                   records, missing, error, before, netlog, lastResp>>
    /\ UNCHANGED retryVars
    /\ UNCHANGED licVars
    /\ UNCHANGED ghVars
    /\ UNCHANGED guiVars
    /\ UNCHANGED rsVars

\* line 118: some more rows reach the file
WriteMetadataRows ==
    /\ pc = "write_metadata"
    /\ \E k \in (Len(metaFile.rows) + 1)..Len(records) :
         metaFile' = WrittenSoFar(records, k)
    /\ UNCHANGED <<upstream, missingFile, age, pc, refresh_days, branch,
                   country_iso_map, pos, records, missing, error, before, netlog,
                   lastResp>>
    /\ UNCHANGED retryVars
    /\ UNCHANGED licVars
    /\ UNCHANGED ghVars
    /\ UNCHANGED guiVars
    /\ UNCHANGED rsVars

\* line 118: to_csv closes the file, which then holds every record
CloseMetadata ==
    /\ pc = "write_metadata"
    /\ metaFile' = WriteMetadata(metaFile, records)
    /\ pc' = "save_missing"
    /\ UNCHANGED <<upstream, missingFile, age, refresh_days, branch, country_iso_map,
                   pos, records, missing, error, before, netlog, lastResp>>
    /\ UNCHANGED retryVars
    /\ UNCHANGED licVars
    /\ UNCHANGED ghVars
    /\ UNCHANGED guiVars
    /\ UNCHANGED rsVars

\* AnalysisWorker.run, line 52: self.finished.emit(df, missing_df); the
\* signal is queued for the GUI thread and the worker thread ends
WorkerEmitsFinished ==
    /\ pc = "returned"
    /\ analysis_finished' = TRUE
    /\ analysis_workers' = analysis_workers - 1
    /\ LeaveRun
    /\ UNCHANGED <<run_analysis_button, start_button, license_worker, license_finished,
                   read_during>>
    /\ UNCHANGED <<upstream, fileVars>>
    /\ UNCHANGED retryVars
    /\ UNCHANGED licVars
    /\ UNCHANGED ghVars
    /\ UNCHANGED rsVars

\* AnalysisWorker.run, line 51 raises: run has no try, line 52 is not
\* reached, the thread ends with the exception
WorkerRaises ==
    /\ pc = "raised"
    /\ analysis_workers' = analysis_workers - 1
    /\ LeaveRun
    /\ UNCHANGED <<run_analysis_button, start_button, analysis_finished,
                   license_worker, license_finished, read_during>>
    /\ UNCHANGED <<upstream, fileVars>>
    /\ UNCHANGED retryVars
    /\ UNCHANGED licVars
    /\ UNCHANGED ghVars
    /\ UNCHANGED rsVars

\* DataCollectionTab.update_data_table, lines 487-489: the slot of finished
UpdateDataTable ==
    /\ analysis_finished
    /\ analysis_finished' = FALSE
    /\ run_analysis_button' = TRUE
    /\ UNCHANGED <<start_button, analysis_workers, license_worker, license_finished,
                   read_during>>
    /\ UNCHANGED <<upstream, fileVars>>
    /\ UNCHANGED runVars
    /\ UNCHANGED retryVars
    /\ UNCHANGED licVars
    /\ UNCHANGED ghVars
    /\ UNCHANGED rsVars

\* LicenseDetectionTab.run_license_check, lines 672-678
LicenseCheckClicked ==
    /\ start_button
    /\ license_worker = "none"
    /\ start_button' = FALSE
    /\ license_worker' = "started"
    /\ UNCHANGED <<run_analysis_button, analysis_workers, analysis_finished,
                   license_finished, read_during>>
    /\ UNCHANGED <<upstream, fileVars>>
    /\ UNCHANGED runVars
    /\ UNCHANGED retryVars
    /\ UNCHANGED licVars
    /\ UNCHANGED ghVars
    /\ UNCHANGED rsVars

\* LicenseWorker.run, line 63: the call of check_license, which reads the
\* metadata file in whatever state the path is at that moment
WorkerCheckLicense ==
    /\ license_worker = "started"
    /\ check_license(GuiAcceptable)
    /\ license_worker' = "ran"
    /\ read_during' = [pc |-> pc, file |-> metaFile]
    /\ UNCHANGED <<run_analysis_button, start_button, analysis_workers,
                   analysis_finished, license_finished>>

\* LicenseWorker.run, line 64 (after a return) or the end of the thread
\* with the exception of line 63
LicenseWorkerEnds ==
    /\ license_worker = "ran"
    /\ license_worker' = "none"
    /\ license_finished' = (lic_pc = "returned")
    /\ lic_pc' = "idle"
    /\ lic_allow' = {}
    /\ lic_df' = << >>
    /\ acceptable' = << >>
    /\ unacceptable' = << >>
    /\ read_during' = NoRead
    /\ UNCHANGED lic_source
    /\ UNCHANGED <<run_analysis_button, start_button, analysis_workers, analysis_finished>>
    /\ UNCHANGED <<upstream, fileVars>>
    /\ UNCHANGED runVars
    /\ UNCHANGED retryVars
    /\ UNCHANGED ghVars
    /\ UNCHANGED rsVars

\* LicenseDetectionTab.update_license_tables, lines 680-682
UpdateLicenseTables ==
    /\ license_finished
    /\ license_finished' = FALSE
    /\ start_button' = TRUE
    /\ UNCHANGED <<run_analysis_button, analysis_workers, analysis_finished,
                   license_worker, read_during>>
    /\ UNCHANGED <<upstream, fileVars>>
    /\ UNCHANGED runVars
    /\ UNCHANGED retryVars
    /\ UNCHANGED licVars
    /\ UNCHANGED ghVars
    /\ UNCHANGED rsVars

\* the application is closed (or killed) and started again: the window is
\* rebuilt, the threads are gone, the two paths keep what they hold
RestartApplication ==
    /\ run_analysis_button' = TRUE
    /\ start_button' = TRUE
    /\ analysis_workers' = 0
    /\ analysis_finished' = FALSE
    /\ license_worker' = "none"
    /\ license_finished' = FALSE
    /\ read_during' = NoRead
    /\ LeaveRun
    /\ lic_pc' = "idle"
    /\ lic_allow' = {}
    /\ lic_df' = << >>
    /\ acceptable' = << >>
    /\ unacceptable' = << >>
    /\ UNCHANGED lic_source
    /\ UNCHANGED <<upstream, fileVars>>
    /\ UNCHANGED retryVars
    /\ UNCHANGED ghVars
    /\ UNCHANGED rsVars

\* SpecGui: the window just opened, no cache file yet
InitGuiSpec ==
    /\ upstream \in [mode : {"table"}, layers : SUBSET TestlandLayers]
    /\ InitFiles
    /\ InitRun
    /\ InitRetry
    /\ InitLicense
    /\ InitGitHub
    /\ InitGui
    /\ InitResolver

NextGui ==
    \/ RunAnalysisClicked
    \/ WorkerRunFullAnalysis
    \/ LookupStep
    \/ OpenMetadata
    \/ WriteMetadataRows
    \/ CloseMetadata
    \/ SaveMissing
    \/ WorkerEmitsFinished
    \/ WorkerRaises
    \/ UpdateDataTable
    \/ LicenseCheckClicked
    \/ WorkerCheckLicense
    \/ LicenseWorkerEnds
    \/ UpdateLicenseTables
    \/ RestartApplication
    \/ Tick

SpecGui == InitGuiSpec /\ [][NextGui]_vars

\* ------------------------------------------------------------ ISO Resolver
\* fetch_adm and fetch_iso are imported and called by geoGuardian/main.py
\* (lines 3, 10, 13) and defined in no file; they are modelled from section
\* 4.1 of the specification (normalizeAdmLevel, resolve).  Texts are
\* sequences of one-character strings.

\* longest administrative-level argument tried
MaxAdmLen == 4

\* longest country argument tried
MaxNameLen == 3

SeqsUpTo(S, n) == UNION {[1..k -> S] : k \in 0..n}

\* str.upper() / str.lower() of one character
Upper(c) ==
    CASE c = "a" -> "A" [] c = "d" -> "D" [] c = "m" -> "M" [] c = "n" -> "N"
      [] c = "i" -> "I" [] c = "g" -> "G" [] c = "o" -> "O" [] OTHER -> c

Lower(c) ==
    CASE c = "A" -> "a" [] c = "D" -> "d" [] c = "M" -> "m" [] c = "N" -> "n"
      [] c = "I" -> "i" [] c = "G" -> "g" [] c = "O" -> "o" [] OTHER -> c

UpperText(x) == [i \in 1..Len(x) |-> Upper(x[i])]

LowerText(x) == [i \in 1..Len(x) |-> Lower(x[i])]

\* the digits of ADM_LEVELS
LevelDigits == {"0", "1", "2", "3", "4"}

AdmChars == {"A", "a", "D", "M", "m", "0", "4", "5"}

\* arguments of normalizeAdmLevel: every short text over AdmChars, and
\* every level as a bare digit, as "ADMd" and as "admd"
AdmInputs ==
    SeqsUpTo(AdmChars, MaxAdmLen)
      \cup {<<dg>> : dg \in LevelDigits}
      \cup {<<"A", "D", "M", dg>> : dg \in LevelDigits}
      \cup {<<"a", "d", "m", dg>> : dg \in LevelDigits}

Outcome(k, v, sugg) == [kind |-> k, value |-> v, suggestions |-> sugg]

\* an "ADM2"-style text handed back as it was given
normalizeAdmLevel_AsGiven(x) ==
    IF Len(x) = 4 /\ SubSeq(UpperText(x), 1, 3) = <<"A", "D", "M">> /\ x[4] \in LevelDigits
    THEN Outcome("ok", x, {})
    ELSE IF Len(x) = 1 /\ x[1] \in LevelDigits
    THEN Outcome("ok", <<"A", "D", "M", x[1]>>, {})
    ELSE Outcome("InvalidInput", << >>, {})

\* normalizeAdmLevel(input) -> "ADM{0-4}"
normalizeAdmLevel(x) ==
    IF Len(x) = 4 /\ SubSeq(UpperText(x), 1, 3) = <<"A", "D", "M">> /\ x[4] \in LevelDigits
    THEN Outcome("ok", UpperText(x), {})
    ELSE IF Len(x) = 1 /\ x[1] \in LevelDigits
    THEN Outcome("ok", <<"A", "D", "M", x[1]>>, {})
    ELSE Outcome("InvalidInput", << >>, {})

\* rows of the reference table of the resolver: <<name, code>>
Nig == << <<"N", "i", "g">>, <<"N", "G">> >>
Ing == << <<"I", "n", "g">>, <<"I", "N">> >>
Om == << <<"O", "m">>, <<"O", "M">> >>

ResolverTables == {<< >>, <<Nig, Ing, Om>>, <<Om, Nig>>}

NameChars == {"N", "n", "I", "i", "G", "g", "O", "m"}

NameInputs == SeqsUpTo(NameChars, MaxNameLen)

\* needle in hay, as Python's `in` for str
Contains(hay, needle) ==
    \E k \in 0..(Len(hay) - Len(needle)) :
        SubSeq(hay, k + 1, k + Len(needle)) = needle

\* resolve(countryInput) -> IsoCode
resolve(index, x) ==
    LET low == LowerText(x)
        exact == {i \in 1..Len(index) : LowerText(index[i][1]) = low}
    IN  IF exact # {}
        THEN Outcome("ok", index[CHOOSE i \in exact : \A j \in exact : i <= j][2], {})
        ELSE Outcome("NotFound", << >>,
                     {index[i][1] : i \in {j \in 1..Len(index) :
                                             Contains(LowerText(index[j][1]), low)}})

NormalizeCall ==
    /\ rs_pc = "idle"
    /\ \E x \in AdmInputs :
         /\ rs_input' = x
         /\ rs_out' = normalizeAdmLevel(x)
    /\ rs_fn' = "normalizeAdmLevel"
    /\ rs_index' = << >>
    /\ rs_again' = NoOutcome
    /\ rs_pc' = "called"
    /\ UNCHANGED <<upstream, fileVars>>
    /\ UNCHANGED runVars
    /\ UNCHANGED retryVars
    /\ UNCHANGED licVars
    /\ UNCHANGED ghVars
    /\ UNCHANGED guiVars

\* the result of a call handed to the function once more
NormalizeAgain ==
    /\ rs_pc = "called"
    /\ rs_fn = "normalizeAdmLevel"
    /\ rs_out.kind = "ok"
    /\ rs_again' = normalizeAdmLevel(rs_out.value)
    /\ rs_pc' = "done"
    /\ UNCHANGED <<rs_fn, rs_index, rs_input, rs_out>>
    /\ UNCHANGED <<upstream, fileVars>>
    /\ UNCHANGED runVars
    /\ UNCHANGED retryVars
    /\ UNCHANGED licVars
    /\ UNCHANGED ghVars
    /\ UNCHANGED guiVars

\* fetch_iso(ISO_PATH, name): the index is built from the table, then searched
ResolveCall ==
    /\ rs_pc = "idle"
    /\ \E table \in ResolverTables, x \in NameInputs :
         /\ rs_index' = build_country_iso_from_csv(table)
         /\ rs_input' = x
         /\ rs_out' = resolve(build_country_iso_from_csv(table), x)
    /\ rs_fn' = "resolve"
    /\ rs_again' = NoOutcome
    /\ rs_pc' = "done"
    /\ UNCHANGED <<upstream, fileVars>>
    /\ UNCHANGED runVars
    /\ UNCHANGED retryVars
    /\ UNCHANGED licVars
    /\ UNCHANGED ghVars
    /\ UNCHANGED guiVars

ResolverExit ==
    /\ rs_pc \in {"called", "done"}
    /\ rs_pc' = "idle"
    /\ rs_fn' = ""
    /\ rs_index' = << >>
    /\ rs_input' = << >>
    /\ rs_out' = NoOutcome
    /\ rs_again' = NoOutcome
    /\ UNCHANGED <<upstream, fileVars>>
    /\ UNCHANGED runVars
    /\ UNCHANGED retryVars
    /\ UNCHANGED licVars
    /\ UNCHANGED ghVars
    /\ UNCHANGED guiVars

InitResolverSpec ==
    /\ upstream = [mode |-> "table", layers |-> {}]
    /\ InitFiles
    /\ InitRun
    /\ InitRetry
    /\ InitLicense
    /\ InitGitHub
    /\ InitGui
    /\ InitResolver

NextResolver ==
    \/ NormalizeCall
    \/ NormalizeAgain
    \/ ResolveCall
    \/ ResolverExit

SpecResolver == InitResolverSpec /\ [][NextResolver]_vars

\* ================================================================= claims
\* number of rows of a list that are about country c and level l
RecordCount(c, l) ==
    Cardinality({k \in 1..Len(records) :
                    records[k].Country = c /\ records[k].BoundaryType = l})

MissingCount(c, l) ==
    Cardinality({k \in 1..Len(missing) :
                    missing[k].Country = c /\ missing[k].ADM_Level = l})

\* boundary requests issued so far in the current run
Gets == {k \in 1..Len(netlog) : netlog[k].op = "get"}

\* requests issued for one (iso, level) in the current run
GetCount(iso, l) ==
    Cardinality({k \in Gets : netlog[k].ISO = iso /\ netlog[k].ADM_Level = l})

\* neither cache file was touched since the run started
FilesUntouched ==
    /\ metaFile = before.meta
    /\ missingFile = before.missing
    /\ age = before.age

\* a run of run_full_analysis is in progress or has just ended
InRun == branch # "none"

\* C1: after a completed run of get_all_boundaries_metadata every (country,
\* level) pair of the index is in exactly one of records and missing, once,
\* so len(records) + len(missing) = 5 * number of countries.
C1_ExactlyOne ==
    pc = "returned" =>
        /\ \A i \in 1..Len(country_iso_map), j \in 1..Len(ADM_LEVELS) :
             RecordCount(country_iso_map[i][1], ADM_LEVELS[j])
               + MissingCount(country_iso_map[i][1], ADM_LEVELS[j]) = 1
        /\ Len(records) + Len(missing) = 5 * Len(country_iso_map)

C1_Witness ==
    /\ pc = "returned"
    /\ Len(country_iso_map) = 2
    /\ Len(records) >= 2
    /\ Len(missing) >= 2

\* a lookup answer that is fatal for the run: a network failure or an HTTP
\* error status other than 404
FatalAnswer(resp) ==
    \/ resp.status = 0
    \/ (resp.status >= 400 /\ resp.status # 404)

\* C2: when a boundary lookup of a run started by run_full_analysis ends in a
\* fatal error, the run raises and both persisted files are exactly what they
\* were before the run, however many pairs had been fetched.
C2_FatalWritesNothing ==
    (InRun /\ FatalAnswer(lastResp)) => (pc = "raised" /\ FilesUntouched)

C2_Witness ==
    /\ InRun
    /\ FatalAnswer(lastResp)
    /\ pc = "raised"
    /\ Len(records) >= 1
    /\ Len(missing) >= 1
    /\ before.meta.exists
    /\ before.missing.exists

\* C3: with refresh_days = 0 and the metadata file present, run_full_analysis
\* always refreshes and never serves the cache, whatever the file's age.
C3_ZeroAlwaysRefreshes ==
    (InRun /\ refresh_days = 0 /\ before.meta.exists) => branch = "refresh"

C6_AbsentAlwaysCollects ==
    (InRun /\ ~before.meta.exists) =>
        /\ branch = "refresh"
        /\ \/ pc \in {"collect", "save_missing", "returned"}
           \/ (pc = "raised" /\ error \in {"RuntimeError", "HTTPError"})

C6_Witness ==
    /\ InRun
    /\ ~before.meta.exists
    /\ refresh_days = None
    /\ pc = "collect"
    /\ Gets # {}

\* C7: after a successful refresh both files hold exactly the rows collected
\* by that run, each row looked up in that run for a country of that run's
\* index; nothing of what the files held before is kept.
C7_RefreshOverwrites ==
    (pc = "returned" /\ branch = "refresh") =>
        /\ metaFile.exists /\ metaFile.rows = records
        /\ missingFile.exists /\ missingFile.rows = missing
        /\ age = 0
        /\ Len(metaFile.rows) + Len(missingFile.rows) = Cardinality(Gets)
        /\ \A k \in 1..Len(metaFile.rows) :
             /\ GetCount(metaFile.rows[k].ISO, metaFile.rows[k].BoundaryType) = 1
             /\ \E i \in 1..Len(country_iso_map) :
                  country_iso_map[i][1] = metaFile.rows[k].Country
        /\ \A k \in 1..Len(missingFile.rows) :
             /\ GetCount(missingFile.rows[k].ISO, missingFile.rows[k].ADM_Level) = 1
             /\ \E i \in 1..Len(country_iso_map) :
                  country_iso_map[i][1] = missingFile.rows[k].Country

C7_Witness ==
    /\ pc = "returned"
    /\ branch = "refresh"
    /\ before.meta.rows # << >>
    /\ before.missing.rows # << >>
    /\ metaFile.rows # << >>
    /\ metaFile.rows # before.meta.rows
    /\ missingFile.rows # before.missing.rows

\* the pair the latest boundary request was about
LastPair == PairAt(pos - (IF pc = "raised" THEN 0 ELSE 1))

\* C8: a pair is recorded as missing exactly when its lookup returned 404 and
\* as a record exactly when it returned 200; any other status, or a network
\* failure, is recorded in neither list and raised.
C8_RecordedByStatus ==
    (lastResp # NoResp) =>
        /\ MissingCount(LastPair.Country, LastPair.ADM_Level) = 1
             <=> lastResp.status = 404
        /\ RecordCount(LastPair.Country, LastPair.ADM_Level) = 1
             <=> lastResp.status = 200
        /\ lastResp.status \notin {200, 404} => pc = "raised"

\* a 5xx answer or a connection-level failure
TransientAnswer(resp) ==
    \/ resp.status = 0
    \/ (resp.status >= 500 /\ resp.status < 600)

\* C9: with retries = 3, a call that is answered 503, 503, 503, 200 returns
\* the 200 response after 4 requests (3 retries).
C9_FourthAnswerReturned ==
    (/\ rw_pc \in {"returned", "raised"}
     /\ rw_retries = DefaultRetries
     /\ \A k \in 1..3 : rw_script[k] = Unavailable503
     /\ rw_script[4] = Ok200)
    => (rw_result = "response" /\ rw_requests = 4)

\* C10: in a full-collection run a lookup answered by a 5xx or cut by a
\* connection failure is requested again before the run may fail.
C10_TransientRetried ==
    (InRun /\ pc = "raised" /\ lastResp # NoResp /\ TransientAnswer(lastResp)) =>
        GetCount(LastPair.ISO, LastPair.ADM_Level) > 1

\* a 4xx answer
ClientError(resp) == resp.status >= 400 /\ resp.status < 500

\* C11: in requests_with_retry the first 4xx answer ends the call at once with
\* the HTTP error: no request follows it and no backoff delay is taken for it,
\* whatever attempts came before.
C11_ClientErrorNotRetried ==
    (rw_requests >= 1 /\ ClientError(rw_script[rw_requests])) =>
        /\ rw_pc = "raised"
        /\ rw_result = "HTTPError"
        /\ Len(rw_sleeps) = rw_requests - 1
        /\ \A k \in 1..(rw_requests - 1) : ~ClientError(rw_script[k])

C11_Witness ==
    /\ rw_pc = "raised"
    /\ rw_result = "HTTPError"
    /\ rw_requests = 3
    /\ rw_script[1] = Unavailable503
    /\ rw_script[2] = NetworkFailure
    /\ rw_script[3] = Forbidden403

\* every request the call was allowed to make was answered by a 5xx or cut
\* by a connection failure
RetriesExhausted ==
    /\ rw_pc = "raised"
    /\ rw_retries >= 1
    /\ rw_requests = rw_retries
    /\ \A k \in 1..rw_retries : TransientAnswer(rw_script[k])

\* C12: when the retry bound is exhausted the call raises the terminal
\* failure that names the URL and the number of attempts, for 5xx answers,
\* connection failures and every mix of them.
C12_ExhaustionNamesAttempts ==
    RetriesExhausted => rw_result = "AllRetriesFailed"

\* C13: in a full-collection run the inter-request delay follows every
\* boundary request whatever its outcome, so two requests of one run are
\* always separated by a delay, also after a 404.
C13_DelayAfterEveryFetch ==
    \A k \in 1..(Len(netlog) - 1) :
        netlog[k].op = "get" => netlog[k + 1].op = "sleep"

\* the boundary requests of the current run, in the order they were issued
GetSeq == SelectSeq(netlog, LAMBDA e : e.op = "get")

\* rank of a (country, level) pair in the order index x ADM0..ADM4
PairRank(c, l) ==
    LET i == CHOOSE n \in 1..Len(country_iso_map) : country_iso_map[n][1] = c
        j == CHOOSE n \in 1..Len(ADM_LEVELS) : ADM_LEVELS[n] = l
    IN  (i - 1) * 5 + j

\* C14: the lookups of a run are issued one after the other in the order
\* (countries in insertion order) x (ADM0..ADM4), each pair once, the outcome
\* of a lookup being recorded before the next one is issued; records and
\* missing list their pairs in that same relative order.
C14_SequentialOrder ==
    /\ \A k \in 1..Len(GetSeq) :
         /\ GetSeq[k].ISO = country_iso_map[((k - 1) \div 5) + 1][2]
         /\ GetSeq[k].ADM_Level = ADM_LEVELS[((k - 1) % 5) + 1]
    /\ Len(records) + Len(missing)
         = Len(GetSeq) - (IF pc = "raised" /\ lastResp # NoResp THEN 1 ELSE 0)
    /\ pc = "returned" => Len(GetSeq) = 5 * Len(country_iso_map)
    /\ \A k \in 1..Len(records) :
         PairRank(records[k].Country, records[k].BoundaryType) <= Len(GetSeq)
    /\ \A k \in 1..Len(missing) :
         PairRank(missing[k].Country, missing[k].ADM_Level) <= Len(GetSeq)
    /\ \A k \in 1..(Len(records) - 1) :
         PairRank(records[k].Country, records[k].BoundaryType)
           < PairRank(records[k + 1].Country, records[k + 1].BoundaryType)
    /\ \A k \in 1..(Len(missing) - 1) :
         PairRank(missing[k].Country, missing[k].ADM_Level)
           < PairRank(missing[k + 1].Country, missing[k + 1].ADM_Level)

C14_Witness ==
    /\ pc = "returned"
    /\ country_iso_map = <<Utopia, Testland>>
    /\ Len(records) = 5
    /\ Len(missing) = 5
    /\ records[1].Country = "Utopia"
    /\ missing[1].Country = "Utopia"
    /\ records[5].Country = "Testland"
    /\ missing[5].Country = "Testland"

\* the API of the end-to-end scenario: 200 for TST/ADM0, 404 for ADM1..ADM4
TestlandStub == upstream.mode = "table" /\ upstream.layers = {<<"TST", "ADM0">>}

InAcceptable(r) == \E i \in 1..Len(acceptable) : acceptable[i] = r
InUnacceptable(r) == \E i \in 1..Len(unacceptable) : unacceptable[i] = r

\* position of a row in the frame check_license read
FramePos(r) == CHOOSE k \in 1..Len(lic_df) : lic_df[k] = r

\* C15: check_license splits the rows of the metadata file totally and
\* disjointly: each row is in exactly one output, in acceptable exactly when
\* its License is a member of the allow-list, the two lengths add up to the
\* number of rows, and each output keeps the input order.
C15_PartitionTotal ==
    (lic_pc = "returned" /\ metaFile.exists) =>
        /\ Len(lic_df) = Len(metaFile.rows)
        /\ Len(acceptable) + Len(unacceptable) = Len(lic_df)
        /\ \A k \in 1..Len(lic_df) :
             /\ InAcceptable(lic_df[k]) # InUnacceptable(lic_df[k])
             /\ InAcceptable(lic_df[k]) <=> lic_df[k].License \in lic_allow
        /\ \A i \in 1..Len(acceptable) : \E k \in 1..Len(lic_df) : lic_df[k] = acceptable[i]
        /\ \A i \in 1..Len(unacceptable) : \E k \in 1..Len(lic_df) : lic_df[k] = unacceptable[i]
        /\ \A i \in 1..(Len(acceptable) - 1) :
             FramePos(acceptable[i]) < FramePos(acceptable[i + 1])
        /\ \A i \in 1..(Len(unacceptable) - 1) :
             FramePos(unacceptable[i]) < FramePos(unacceptable[i + 1])

C15_Witness ==
    /\ lic_pc = "returned"
    /\ Len(lic_df) = 3
    /\ Len(acceptable) = 1
    /\ Len(unacceptable) = 2
    /\ acceptable[1] = lic_df[2]
    /\ unacceptable[1].License = "Proprietary"

\* C16: a record whose License is empty or unset lands in unacceptable and
\* never in acceptable, whatever the allow-list holds.
C16_FailClosed ==
    lic_pc = "returned" =>
        \A k \in 1..Len(lic_source) :
            lic_source[k].License \in {"", Unset} =>
                /\ k <= Len(lic_df)
                /\ lic_df[k].BoundaryType = lic_source[k].BoundaryType
                /\ InUnacceptable(lic_df[k])
                /\ ~InAcceptable(lic_df[k])

C16_Witness ==
    /\ lic_pc = "returned"
    /\ "" \in lic_allow
    /\ Len(lic_source) = 3
    /\ lic_source[1].License = ""
    /\ lic_source[2].License = Unset
    /\ lic_source[3].License = "Public Domain"
    /\ Len(unacceptable) = 2
    /\ Len(acceptable) = 1

\* the pull-request listings, which loop over pages and keep every item
PullFns == {AnalysisPulls, PrPulls}

IssueFns == {AnalysisIssues, PrIssues}

\* the answer GitHub gave to the k-th request of the call
AnswerTo(k) == PageAnswer(gh_upstream, ServedPage(gh_reqs[k]))

RECURSIVE ConcatPages(_, _)
\* the items of pages 1..n of a listing, in page order
ConcatPages(up, n) ==
    IF n = 0 THEN << >> ELSE ConcatPages(up, n - 1) \o PageItems(up, n)

\* C17: the paginated pull-request fetch asks for pages 1, 2, 3, ... of the
\* fixed size one after the other, asks for a further page only after a
\* non-empty one, and when it ends on an empty page it returns the items of
\* all the pages before it, in page order.
C17_PagesInOrder ==
    gh_fn \in PullFns =>
        /\ \A k \in 1..Len(gh_reqs) :
             /\ gh_reqs[k].page = k
             /\ gh_reqs[k].per_page = PerPage
        /\ \A k \in 1..(Len(gh_reqs) - 1) :
             /\ ~GhRaises(AnswerTo(k))
             /\ PageItems(gh_upstream, k) # << >>
        /\ (gh_pc = "returned" /\ ~GhRaises(AnswerTo(Len(gh_reqs)))) =>
             /\ PageItems(gh_upstream, Len(gh_reqs)) = << >>
             /\ gh_result = ConcatPages(gh_upstream, Len(gh_reqs) - 1)
        /\ gh_pc = "loop" => gh_page = Len(gh_reqs) + 1

C17_Witness ==
    /\ gh_fn \in PullFns
    /\ gh_pc = "returned"
    /\ Len(gh_reqs) = 3
    /\ Len(gh_result) = 3
    /\ gh_result[1].page = 1
    /\ gh_result[3].page = 2
    /\ AnswerTo(3) = GhOk(<< >>)

\* number of leading pages of a listing that are served and non-empty
RECURSIVE ServedFrom(_, _)
ServedFrom(up, p) ==
    IF p \in DOMAIN up.pages /\ ~GhRaises(up.pages[p]) /\ up.pages[p].shape # << >>
    THEN 1 + ServedFrom(up, p + 1)
    ELSE 0

\* the listing ends on an empty page, no request for it fails
ServedWhole(up) == ~GhRaises(PageAnswer(up, ServedFrom(up, 1) + 1))

InResult(it) == \E k \in 1..Len(gh_result) : gh_result[k] = it

\* C18: an issue listing that is returned holds no item tagged as a pull
\* request, and holds every untagged item of every page GitHub serves up to
\* the first empty page.
C18_IssuesOnlyEveryPage ==
    (gh_fn \in IssueFns /\ gh_pc = "returned") =>
        /\ \A k \in 1..Len(gh_result) : ~gh_result[k].pull_request
        /\ ServedWhole(gh_upstream) =>
             \A p \in 1..ServedFrom(gh_upstream, 1) :
                 \A i \in 1..Len(PageItems(gh_upstream, p)) :
                     ~PageItems(gh_upstream, p)[i].pull_request
                         => InResult(PageItems(gh_upstream, p)[i])

\* C19: a request that GitHub refuses for rate limiting ends the call with a
\* raised error, which an empty listing never is, and no request follows it.
C19_RateLimitSurfaced ==
    \A k \in 1..Len(gh_reqs) :
        AnswerTo(k) = RateLimited =>
            /\ k = Len(gh_reqs)
            /\ gh_pc = "raised"
            /\ gh_error # ""

\* C24: the k-th backoff delay of a call (k = 0 for the first) is the base
\* delay times 2^k, and delays lie between attempts only: once the call has
\* ended it has slept fewer times than it has sent requests.
C24_BackoffBetweenAttempts ==
    /\ \A k \in 1..Len(rw_sleeps) : rw_sleeps[k] = k - 1
    /\ Len(rw_sleeps) <= rw_requests
    /\ (rw_pc \in {"returned", "raised"} /\ rw_requests > 0)
           => Len(rw_sleeps) < rw_requests

\* C26: the gate looks at the metadata file only (there, and either no
\* threshold or young enough), never at the missing-layers file; a run sent
\* to the cached branch with the missing-layers file absent raises instead
\* of refreshing: no boundary request, both paths left as they were.
C26_GateIgnoresMissingFile ==
    InRun =>
        /\ (branch = "cached") <=>
               /\ before.meta.exists
               /\ \/ refresh_days = None
                  \/ age_days(before.age) <= refresh_days
        /\ (branch = "cached" /\ ~before.missing.exists) =>
               /\ pc = "raised"
               /\ error \in {"FileNotFoundError", "EmptyDataError"}
               /\ Gets = {}
               /\ metaFile = before.meta
               /\ missingFile = before.missing

C26_Witness ==
    /\ pc = "raised"
    /\ branch = "cached"
    /\ error = "FileNotFoundError"
    /\ metaFile.exists
    /\ metaFile.rows # << >>
    /\ ~missingFile.exists
    /\ refresh_days = 1

\* C27: fetch_github_pull_requests of analysis.py never raises; when the
\* request for some page fails it returns an empty listing, with none of the
\* pages fetched before; what it returns is never a part of the listing.
C27_AllOrNothing ==
    gh_fn = AnalysisPulls =>
        /\ gh_pc # "raised"
        /\ gh_error = ""
        /\ gh_pc = "returned" =>
             /\ GhRaises(AnswerTo(Len(gh_reqs))) => gh_result = << >>
             /\ gh_result \in
                  {<< >>, ConcatPages(gh_upstream, ServedFrom(gh_upstream, 1))}

C27_Witness ==
    /\ gh_fn = AnalysisPulls
    /\ gh_pc = "returned"
    /\ Len(gh_reqs) = 3
    /\ AnswerTo(3) = GhNetworkFailure
    /\ Len(gh_all) = 4
    /\ gh_result = << >>

\* the listing comes to an end: some page is empty or fails
ListingEnds(up) ==
    ~up.endless \/ \E p \in DOMAIN up.pages : GhRaises(up.pages[p]) \/ up.pages[p].shape = << >>

\* the call is over
GhDone == gh_pc \in {"returned", "raised"}

\* what C30 says of every state of a paginated call
C30_Counts ==
    Paginated(gh_fn) =>
        /\ (gh_pc = "returned" /\ ~GhRaises(AnswerTo(Len(gh_reqs))))
               => Len(gh_reqs) = ServedFrom(gh_upstream, 1) + 1
        /\ ~ListingEnds(gh_upstream) =>
               /\ ~GhDone
               /\ gh_page = Len(gh_reqs) + 1

\* C30: a paginated fetch against a listing with an empty or failing page
\* ends; after k non-empty pages and an empty one it has sent k + 1 requests
\* and returns; against a listing whose every page has an item it never
\* ends, the page number growing with every request.
C30_EndsOnEmptyPage ==
    /\ []C30_Counts
    /\ (gh_pc = "loop" /\ ListingEnds(gh_upstream)) ~> GhDone

C30_Witness ==
    /\ gh_fn = PrIssues
    /\ ~gh_upstream.endless
    /\ gh_pc = "returned"
    /\ ServedFrom(gh_upstream, 1) = MaxPages
    /\ Len(gh_reqs) = MaxPages + 1

\* C21: whatever the clicks and the completions, at most one AnalysisWorker
\* is alive, so at most one run of run_full_analysis works on the cache
\* paths; while one is alive the Run button is disabled.
C21_OneAnalysisWorker ==
    /\ analysis_workers <= 1
    /\ pc # "idle" => analysis_workers = 1
    /\ analysis_workers = 1 => ~run_analysis_button

C21_Witness ==
    /\ analysis_workers = 1
    /\ branch = "cached"
    /\ pc = "returned"
    /\ records # << >>
    /\ ~run_analysis_button

\* C25: every run the GUI starts has refresh_days = None; a run started
\* while the metadata file exists is served from the cache: it sends no
\* boundary request and leaves both cache files as they were.
C25_GuiNeverRefreshes ==
    InRun =>
        /\ refresh_days = None
        /\ before.meta.exists =>
             /\ branch = "cached"
             /\ Gets = {}
             /\ metaFile = before.meta
             /\ missingFile = before.missing

C25_Witness ==
    /\ analysis_workers = 1
    /\ pc = "returned"
    /\ before.meta.exists
    /\ age_days(before.age) = MaxDays + 1
    /\ Len(records) = 2
    /\ missing # << >>

\* C28: an analysis run started from the GUI ends with the finished signal
\* and the Run button enabled again: once no worker is alive and no finished
\* signal waits for its slot, the button is enabled.
C28_RunButtonReenabled ==
    (analysis_workers = 0 /\ ~analysis_finished) => run_analysis_button

\* C29: what check_license reads while a run is between the opening of the
\* metadata path by to_csv and its closing is a complete dataset: the file
\* as it was before the run, or the file with every record of the run.
C29_NoReadDuringRewrite ==
    (read_during.pc = "write_metadata" /\ pc = "write_metadata") =>
        read_during.file \in {before.meta, WriteMetadata(before.meta, records)}

\* the argument is level dg written "ADMdg" in some letter case
AdmStyle(x, dg) ==
    /\ Len(x) = 4
    /\ x[1] \in {"A", "a"}
    /\ x[2] \in {"D", "d"}
    /\ x[3] \in {"M", "m"}
    /\ x[4] = dg

\* C22: for every level d of 0..4 normalizeAdmLevel gives "ADMd" for the
\* bare digit and for "ADMd" in any letter case; applied to its own result
\* it gives that result again; every other argument is InvalidInput.
C22_NormalizeIdempotent ==
    (rs_fn = "normalizeAdmLevel" /\ rs_pc # "idle") =>
        /\ \A dg \in LevelDigits :
             (rs_input = <<dg>> \/ AdmStyle(rs_input, dg))
                 => rs_out = Outcome("ok", <<"A", "D", "M", dg>>, {})
        /\ ~(\E dg \in LevelDigits : rs_input = <<dg>> \/ AdmStyle(rs_input, dg))
                 => rs_out.kind = "InvalidInput"
        /\ rs_pc = "done" => rs_again = rs_out

C22_Witness ==
    /\ rs_fn = "normalizeAdmLevel"
    /\ rs_pc = "done"
    /\ rs_input = <<"a", "D", "m", "4">>
    /\ rs_out.value = <<"A", "D", "M", "4">>
    /\ rs_again.value = <<"A", "D", "M", "4">>

\* the two letters of a letter, upper and lower case
Cases(c) ==
    CASE c \in {"N", "n"} -> {"N", "n"} [] c \in {"I", "i"} -> {"I", "i"}
      [] c \in {"G", "g"} -> {"G", "g"} [] c \in {"O", "o"} -> {"O", "o"}
      [] c \in {"M", "m"} -> {"M", "m"} [] OTHER -> {c}

\* two texts equal up to letter case
SameFold(a, b) ==
    /\ Len(a) = Len(b)
    /\ \A i \in 1..Len(a) : b[i] \in Cases(a[i])

\* the codes of the reference rows
ResolverCodes == {Nig[2], Ing[2], Om[2]}

====
